---- MODULE Spec2Model ----
(***************************************************************************)
(* State-machine model of the fastapi_stomp broker core: the per-session   *)
(* protocol engine (AsyncSTOMP12 / AsyncStompEngine), the subscription     *)
(* registry, the queue manager with its in-memory store, and the topic     *)
(* manager.                                                                *)
(*                                                                         *)
(* Strings that the code inspects piecewise are sequences of tokens:       *)
(*   destination  <<"/queue/", "a">>   is the text "/queue/a"              *)
(*   accept-version <<"1.1", ",", "1.2">> is the text "1.1,1.2"            *)
(*   message-id   <<"m">> is client text, <<"uuid", n>> is str(uuid4())    *)
(* so the empty text is <<>>.  Other header values are plain strings.      *)
(* A headers dict is a function whose DOMAIN is the set of keys present.   *)
(***************************************************************************)
EXTENDS Integers, Sequences, FiniteSets, TLC

\* ------------------------------------------------------------------ bounds

NumConns == 2
MaxMsgs == 2
MaxStore == 3
MaxTopicSends == 1

Conns == 1..NumConns

\* ------------------------------------------------------------- frame values

SUPPORTED_VERSION == "1.2"
TEXT_PLAIN == "text/plain"

VALID_COMMANDS ==
  { "message", "connect", "connected", "error", "send", "subscribe",
    "unsubscribe", "begin", "commit", "abort", "ack", "disconnect", "nack" }

EmptyHeaders == [k \in {} |-> ""]

\* dict.get(key) is falsy: the key is absent or its value is the empty text
Has(h, k) == k \in DOMAIN h
SeqKeys == { "destination", "accept-version", "message-id" }
Falsy(h, k) ==
  IF ~Has(h, k) THEN TRUE
  ELSE IF k \in SeqKeys THEN h[k] = <<>> ELSE h[k] = ""
Truthy(h, k) == ~Falsy(h, k)

\* dict.setdefault(key, value)
SetDefault(h, k, v) == IF Has(h, k) THEN h ELSE (k :> v) @@ h

\* d[key] = value
SetItem(h, k, v) == (k :> v) @@ h

\* str.lower() on the command texts a client sends
Lower(cmd) ==
  CASE cmd = "CONNECT" -> "connect"
    [] cmd = "STOMP" -> "stomp"
    [] cmd = "SEND" -> "send"
    [] cmd = "Send" -> "send"
    [] cmd = "SUBSCRIBE" -> "subscribe"
    [] cmd = "UNSUBSCRIBE" -> "unsubscribe"
    [] cmd = "DISCONNECT" -> "disconnect"
    [] cmd = "BEGIN" -> "begin"
    [] cmd = "ACK" -> "ack"
    [] cmd = "MESSAGE" -> "message"
    [] cmd = "RECEIPT" -> "receipt"
    [] cmd = "FOO" -> "foo"
    [] OTHER -> cmd

\* str.split(','): the pieces between the "," tokens, the empty text giving ['']
RECURSIVE SplitComma(_)
SplitComma(s) ==
  IF s = <<>> THEN << <<>> >>
  ELSE IF Head(s) = "," THEN << <<>> >> \o SplitComma(Tail(s))
  ELSE LET rest == SplitComma(Tail(s))
       IN << <<Head(s)>> \o Head(rest) >> \o Tail(rest)

SeqToSet(s) == { s[i] : i \in DOMAIN s }

\* str.startswith(prefix), the prefix being one token
StartsWith(d, prefix) == Len(d) >= 1 /\ d[1] = prefix

IsQueueDestAlways(d) == TRUE

IsQueueDest(d) == StartsWith(d, "/queue/")

\* --------------------------------------------------- subscription registry
\* A registry is the dict AsyncSubscriptionManager._subscriptions: a function
\* from the destinations that are keys to their sets of AsyncSubscription.

AsyncSubscription(c, id) == [connection |-> c, id |-> id]

DropKey(reg, d) == [k \in DOMAIN reg \ {d} |-> reg[k]]

subscribeNothing(reg, c, d, id) == reg

subscribeAlone(reg, c, d, id) == (d :> {AsyncSubscription(c, id)}) @@ DropKey(reg, d)

unsubscribeDestination(reg, c, d, id) == DropKey(reg, d)

subscribe(reg, c, d, id) ==
  IF d \in DOMAIN reg
  THEN [reg EXCEPT ![d] = @ \cup {AsyncSubscription(c, id)}]
  ELSE (d :> {AsyncSubscription(c, id)}) @@ reg

unsubscribeKeepingKey(reg, c, d, id) ==
  IF d \notin DOMAIN reg THEN reg
  ELSE [reg EXCEPT ![d] = @ \ {AsyncSubscription(c, id)}]

unsubscribe(reg, c, d, id) ==
  IF d \notin DOMAIN reg THEN reg
  ELSE LET subscriptions == reg[d] \ {AsyncSubscription(c, id)}
       IN IF subscriptions = {} THEN DropKey(reg, d)
          ELSE [reg EXCEPT ![d] = subscriptions]

RemainingAfterDisconnect(reg, c, d) == { s \in reg[d] : s.connection # c }

disconnect(reg, c) ==
  [d \in { k \in DOMAIN reg : RemainingAfterDisconnect(reg, c, k) # {} }
     |-> RemainingAfterDisconnect(reg, c, d)]

subscribers(reg, d) == IF d \in DOMAIN reg THEN reg[d] ELSE {}

subscriber_count(reg, d) == Cardinality(subscribers(reg, d))

\* ------------------------------------------------------ in-memory queue store
\* AsyncMemoryQueue._messages: a defaultdict of deques; index 1 is the left end.

enqueueRight(m, d, f) ==
  IF d \in DOMAIN m THEN [m EXCEPT ![d] = Append(@, f)] ELSE (d :> <<f>>) @@ m

enqueue(m, d, f) ==
  IF d \in DOMAIN m THEN [m EXCEPT ![d] = <<f>> \o @] ELSE (d :> <<f>>) @@ m

\* the default requeue of AsyncQueueStore
requeue(m, d, f) == enqueue(m, d, f)

\* reading _messages[destination] creates the key
Touch(m, d) == IF d \in DOMAIN m THEN m ELSE (d :> <<>>) @@ m

DequeueResult(m, d) ==
  IF d \in DOMAIN m /\ m[d] # <<>> THEN <<m[d][Len(m[d])]>> ELSE <<>>

dequeue(m, d) ==
  IF d \in DOMAIN m /\ m[d] # <<>>
  THEN [m EXCEPT ![d] = SubSeq(@, 1, Len(@) - 1)]
  ELSE Touch(m, d)

size(m, d) == Len(Touch(m, d)[d])

has_frames(m, d) == Touch(m, d)[d] # <<>>

destinations(m) == DOMAIN m

\* ------------------------------------------------------------------ frames

Frame(cmd, headers, body) == [cmd |-> cmd, headers |-> headers, body |-> body]

\* content-length is a HeaderValue that computes len(body) when it is read
ErrorFrame(message, body) ==
  Frame("error",
        ("message" :> message) @@ ("content-length" :> <<"len", body>>),
        body)

ReceiptFrame(receipt) == Frame("RECEIPT", ("receipt-id" :> receipt), "")

ConnectedFrame == Frame("CONNECTED", ("session" :> <<"uuid">>), "")

VersionHeaders == ("version" :> SUPPORTED_VERSION) @@ ("content-type" :> TEXT_PLAIN)

NoVersionFrame ==
  Frame("ERROR", VersionHeaders,
        "No protocol version specified, specify 'accept-version' header")

UnsupportedVersionFrame ==
  Frame("ERROR", VersionHeaders, "Supported protocol versions are 1.2")

\* exception texts
NotConnectedMsg == "Not connected, send CONNECT frame first"
InvalidCommandMsg == "Invalid STOMP command"
UnsupportedCommandMsg == "Invalid STOMP command, server does not support specified command"
NoneSplitMsg == "'NoneType' object has no attribute 'split'"
AuthFailedMsg == "Authentication from token failed"
TokenMissingMsg == "Token is missing in the headers"
AuthenticatorRaisedMsg == "authenticator raised"
SendFrameFailedMsg == "send_frame raised"
NoSubscribeIdMsg == "No 'id' specified for SUBSCRIBE command."
NoSubscribeDestMsg == "Missing destination for SUBSCRIBE command."
NoUnsubscribeIdMsg == "No 'id' specified for UNSUBSCRIBE command."
NoUnsubscribeDestMsg == "Missing destination for UNSUBSCRIBE command."
NoSendDestMsg == "Missing destination for SEND command."
SetChangedMsg == "Set changed size during iteration"
StoreFailedMsg == "store raised"

\* --------------------------------------------------------- frames received

QueueA == <<"/queue/", "a">>
TopicX == <<"/topic/", "x">>
TopicY == <<"/topic/", "y">>

Ids == {"s1", "s2"}
Subscriptions == [connection : Conns, id : Ids]

Opt(k, V) == {EmptyHeaders} \cup { k :> v : v \in V }
Both(A, B) == { a @@ b : a \in A, b \in B }
Frames(cmds, H) == { Frame(cmd, h, "") : cmd \in cmds, h \in H }

GoodVersion == {"accept-version" :> <<"1.2">>}
GoodToken == {"token" :> "tok"}

\* what a client may send to a session
ConnectFrames ==
  Frames({"CONNECT"},
         Both(Opt("accept-version",
                  {<<>>, <<"1.2">>, <<"1.1">>, <<"1.1", ",", "1.2">>}),
              Opt("token", {"", "tok"}))
         \cup Both(GoodVersion, Both(GoodToken, {"receipt" :> "r1"})))

SendFrames ==
  Frames({"SEND"},
         Both(Opt("destination", {<<>>, QueueA, TopicX}), Opt("receipt", {"r1"}))
         \cup Both({"destination" :> TopicX}, {"receipt" :> ""}))

SubscribeFrames ==
  Frames({"SUBSCRIBE", "UNSUBSCRIBE"},
         Both(Opt("destination", {<<>>, QueueA, TopicX}), {"id" :> "s1"})
         \cup {"destination" :> QueueA}
         \cup Both({"destination" :> QueueA},
                   Both({"id" :> "s1"}, {"receipt" :> "", "receipt" :> "r1"})))

DisconnectFrames == Frames({"DISCONNECT"}, Opt("receipt", {"r1"}))

OtherFrames ==
  Frames({"STOMP"}, Both(GoodVersion, GoodToken))
  \cup Frames({"BEGIN"}, Opt("receipt", {"r1"}))
  \cup Frames({"MESSAGE", "RECEIPT", "FOO"}, {EmptyHeaders})

InFrames ==
  ConnectFrames \cup SendFrames \cup SubscribeFrames \cup DisconnectFrames
  \cup OtherFrames

\* the frames of two sessions that talk to each other
PeerConnectFrames == Frames({"CONNECT"}, Both(GoodVersion, GoodToken))
PeerSubscribeFrames ==
  Frames({"SUBSCRIBE", "UNSUBSCRIBE"},
         Both(Opt("destination", {QueueA, TopicX}), {"id" :> "s1"}))
PeerSendFrames == Frames({"SEND"}, Opt("destination", {QueueA, TopicX}))
PeerDisconnectFrames == Frames({"DISCONNECT"}, {EmptyHeaders})
PeerFrames ==
  PeerConnectFrames \cup PeerSubscribeFrames \cup PeerSendFrames
  \cup PeerDisconnectFrames

\* what a caller may pass to a manager's send
QueueMessages ==
  Frames({"SEND"}, Both({"destination" :> QueueA}, Opt("message-id", {<<>>, <<"m">>})))

TopicMessages == Frames({"SEND"}, {"destination" :> TopicX})

Unaddressed == Frames({"SEND"}, Opt("destination", {<<>>}))

\* the tasks that call send, and the sessions that send frames
QueueSenders == {1, 2}
TopicSenders == {1}
Senders == {1}

\* the subscriptions made on the queue: two ids on connection 1, one elsewhere
QueueSubscriptions == { s \in Subscriptions : s.connection = 1 \/ s.id = "s1" }

\* the subscriptions made on the topics: one per connection, ids alternating
TopicSubscriptions ==
  { s \in Subscriptions : (s.connection % 2 = 1) <=> (s.id = "s1") }

TopicRegistrations ==
  { [s |-> s, d |-> TopicX] : s \in TopicSubscriptions }
  \cup { [s |-> AsyncSubscription(1, "s1"), d |-> TopicY] }

\* the registrations and messages of the tasks that use both managers
ManagerQueueSubscriptions == { s \in Subscriptions : s.connection = 1 }
ManagerQueueMessages == Frames({"SEND"}, {"destination" :> QueueA})
ManagerTopicSubscriptions == {AsyncSubscription(1, "s1"), AsyncSubscription(2, "s2")}

AuthOutcomes == {"accepted", "rejected", "raised"}

\* ------------------------------------------------------------------- state

VARIABLES
  connected,    \* AsyncStompEngine.connected of each session
  q_subs,       \* AsyncQueueManager._subscriptions._subscriptions
  t_subs,       \* AsyncTopicManager.subscriptions_manager._subscriptions
  pending,      \* AsyncQueueManager._pending
  messages,     \* AsyncMemoryQueue._messages
  pc,           \* where each task is suspended: idle, qsend or tsend
  cur,          \* the locals of a suspended send
  nextId,       \* the next frame object / uuid4 to be made
  last          \* the call that the latest step finished, if any: a
                \* process_frame, a manager's send called directly, a queue
                \* manager's disconnect or a call on the queue store

vars == <<connected, q_subs, t_subs, pending, messages, pc, cur, nextId, last>>

EmptyDict == [k \in {} |-> {}]
Idle == [kind |-> "none"]
NoCall == [kind |-> "none"]
NoSend == [kind |-> "none"]

Init ==
  /\ connected = [c \in Conns |-> FALSE]
  /\ q_subs = EmptyDict
  /\ t_subs = EmptyDict
  /\ pending = EmptyDict
  /\ messages = EmptyDict
  /\ pc = [c \in Conns |-> "idle"]
  /\ cur = [c \in Conns |-> Idle]
  /\ nextId = 1
  /\ last = NoCall

\* ------------------------------------------------- AsyncSTOMP12.process_frame

\* getattr(self, cmd_method, None) or getattr(self, "_" + cmd_method, None)
Method(cmd_method) ==
  CASE cmd_method = "connect" -> "_connect"
    [] cmd_method = "stomp" -> "_stomp"
    [] cmd_method = "send" -> "_send"
    [] cmd_method = "subscribe" -> "_subscribe"
    [] cmd_method = "unsubscribe" -> "_unsubscribe"
    [] cmd_method = "disconnect" -> "_disconnect"
    [] OTHER -> "None"

\* what process_frame does with a frame before its try block
Dispatch(c, f) ==
  LET cmd_method == Lower(f.cmd)
      method == Method(cmd_method)
  IN IF cmd_method \notin VALID_COMMANDS THEN "raise invalid"
     ELSE IF ~connected[c] /\ method \notin {"_connect", "_stomp"}
          THEN "raise not connected"
     ELSE IF method = "None" THEN "raise unsupported"
     ELSE method

LastRec(c, f, was, sent, result, exc, handler, auth, ok) ==
  [kind |-> "frame", conn |-> c, frame |-> f, was |-> was, sent |-> sent, result |-> result,
   exc |-> exc, handler |-> handler, auth |-> auth,
   sendOk |-> ok \/ sent = <<>>, send |-> NoSend]

\* the else branch of the try: the handler returned
AfterHandler(c, f, method, was, sent, auth, ok) ==
  IF Truthy(f.headers, "receipt") /\ method # "_connect"
  THEN LastRec(c, f, was, Append(sent, ReceiptFrame(f.headers["receipt"])),
               IF ok THEN "returned" ELSE "raised",
               IF ok THEN "" ELSE SendFrameFailedMsg, "completed", auth, ok)
  ELSE LastRec(c, f, was, sent, "returned", "", "completed", auth, ok)

HandlerRaisedSilent(c, f, was, sent, msg, auth, ok) ==
  LastRec(c, f, was, sent, "returned", msg, "raised", auth, ok)

\* the except branch of the try: the handler raised msg
HandlerRaised(c, f, was, sent, msg, auth, ok) ==
  LastRec(c, f, was, Append(sent, ErrorFrame(msg, msg)), "returned", msg,
          "raised", auth, ok)

\* process_frame raises before it reaches a handler
Rejected(c, f) ==
  /\ pc[c] = "idle"
  /\ Dispatch(c, f) \in {"raise invalid", "raise not connected", "raise unsupported"}
  /\ last' = LastRec(c, f, connected[c], <<>>, "raised",
                     CASE Dispatch(c, f) = "raise invalid" -> InvalidCommandMsg
                       [] Dispatch(c, f) = "raise not connected" -> NotConnectedMsg
                       [] OTHER -> UnsupportedCommandMsg,
                     "none", "notcalled", TRUE)
  /\ UNCHANGED <<connected, q_subs, t_subs, pending, messages, pc, cur, nextId>>

\* the ERROR frames _check_protocol sends when accept-version is a text
CheckProtocolSent(h) ==
  (IF Falsy(h, "accept-version") THEN <<NoVersionFrame>> ELSE <<>>)
  \o (IF <<SUPPORTED_VERSION>> \notin SeqToSet(SplitComma(h["accept-version"]))
      THEN <<UnsupportedVersionFrame>> ELSE <<>>)

AuthErrorTokenOnly(h, a) == IF Falsy(h, "token") THEN TokenMissingMsg ELSE ""

\* the exception _connect raises for the token, "" if none: a is what
\* authenticator.authenticate does when it is called
AuthError(h, a) ==
  IF Falsy(h, "token") THEN TokenMissingMsg
  ELSE IF a = "rejected" THEN AuthFailedMsg
  ELSE IF a = "raised" THEN AuthenticatorRaisedMsg
  ELSE ""

AuthCalled(h, a) == IF Falsy(h, "token") THEN "notcalled" ELSE a

\* _connect, with the outcome a of the authenticator and ok of the
\* connection's own send_frame
Connect(c, f, a, ok) ==
  /\ pc[c] = "idle"
  /\ Dispatch(c, f) \in {"_connect", "_stomp"}
  /\ LET h == f.headers
         was == connected[c]
         m == Dispatch(c, f)
     IN IF ~Has(h, "accept-version")
        THEN /\ connected' = connected
             /\ last' = HandlerRaised(c, f, was, <<NoVersionFrame>>,
                                      IF ok THEN NoneSplitMsg ELSE SendFrameFailedMsg,
                                      "notcalled", ok)
        ELSE LET cp == CheckProtocolSent(h)
             IN IF cp # <<>> /\ ~ok
                THEN /\ connected' = connected
                     /\ last' = HandlerRaised(c, f, was, <<cp[1]>>,
                                              SendFrameFailedMsg, "notcalled", ok)
                ELSE IF AuthError(h, a) # ""
                THEN /\ connected' = connected
                     /\ last' = HandlerRaised(c, f, was, cp, AuthError(h, a),
                                              AuthCalled(h, a), ok)
                ELSE /\ connected' = [connected EXCEPT ![c] = TRUE]
                     /\ last' = IF ok
                                THEN AfterHandler(c, f, m, was,
                                                  Append(cp, ConnectedFrame),
                                                  AuthCalled(h, a), ok)
                                ELSE HandlerRaised(c, f, was,
                                                   Append(cp, ConnectedFrame),
                                                   SendFrameFailedMsg,
                                                   AuthCalled(h, a), ok)
  /\ UNCHANGED <<q_subs, t_subs, pending, messages, pc, cur, nextId>>

\* AsyncStompEngine.unbind: the two disconnect coroutines are made and never
\* awaited, so neither manager runs
unbind(c) == [connected EXCEPT ![c] = FALSE]

\* _disconnect
Disconnect(c, f, ok) ==
  /\ pc[c] = "idle"
  /\ Dispatch(c, f) = "_disconnect"
  /\ connected' = unbind(c)
  /\ last' = AfterHandler(c, f, "_disconnect", connected[c], <<>>, "notcalled", ok)
  /\ UNCHANGED <<q_subs, t_subs, pending, messages, pc, cur, nextId>>

\* --------------------------------------------- a topic send's set iterator
\* AsyncTopicManager.send iterates the registry's own set object while it
\* awaits send_frame.  A suspended send keeps in cur: remaining (what the
\* iterator will still yield), isize (len of the set when the iterator was
\* made), osize (len of that object now), live (the object is still the
\* registry's) and held (every subscription that object has contained since
\* the send read it).  An in-place add or remove changes osize; an added element
\* lands before or after the iterator's position (seen), one that was already
\* yielded returns to the slot the iterator has passed.

InPlace(actor, d, old, new, keyDeleted, seen) ==
  [x \in Conns |->
     IF x # actor /\ pc[x] = "tsend" /\ cur[x].dest = d
     THEN IF cur[x].live
          THEN [cur[x] EXCEPT
                  !.osize = Cardinality(new),
                  !.remaining = (@ \cap new)
                                  \cup (IF seen
                                        THEN (new \ old) \ DOMAIN cur[x].rec.calls
                                        ELSE {}),
                  !.changed = @ \/ new # old,
                  !.held = @ \cup new,
                  !.live = ~keyDeleted]
          ELSE [cur[x] EXCEPT !.changed = @ \/ new # old]
     ELSE cur[x]]

\* AsyncSubscriptionManager.disconnect rebinds every key to a new set object
Rebound(old_subs, new_subs) ==
  [x \in Conns |->
     IF pc[x] = "tsend"
     THEN [cur[x] EXCEPT
             !.live = FALSE,
             !.changed = @ \/ subscribers(old_subs, cur[x].dest)
                               # subscribers(new_subs, cur[x].dest)]
     ELSE cur[x]]

KeyDeleted(old_subs, new_subs, d) == d \in DOMAIN old_subs /\ d \notin DOMAIN new_subs

\* ------------------------------- the managers' subscribe and unsubscribe

QueueSubscribe(c, dest, id) ==
  /\ q_subs' = subscribe(q_subs, c, dest, id)
  /\ UNCHANGED <<t_subs, cur>>

QueueUnsubscribe(c, dest, id) ==
  /\ q_subs' = unsubscribe(q_subs, c, dest, id)
  /\ UNCHANGED <<t_subs, cur>>

TopicSubscribe(c, dest, id, seen) ==
  /\ t_subs' = subscribe(t_subs, c, dest, id)
  /\ cur' = InPlace(0, dest, subscribers(t_subs, dest), subscribers(t_subs', dest),
                    FALSE, seen)
  /\ UNCHANGED q_subs

TopicUnsubscribe(c, dest, id) ==
  /\ t_subs' = unsubscribe(t_subs, c, dest, id)
  /\ cur' = InPlace(0, dest, subscribers(t_subs, dest), subscribers(t_subs', dest),
                    KeyDeleted(t_subs, t_subs', dest), FALSE)
  /\ UNCHANGED q_subs

\* direct calls, by any task
DirectQueueSubscribe(c, dest, id) ==
  /\ QueueSubscribe(c, dest, id)
  /\ UNCHANGED <<connected, pending, messages, pc, nextId>>
  /\ last' = NoCall

DirectQueueUnsubscribe(c, dest, id) ==
  /\ QueueUnsubscribe(c, dest, id)
  /\ UNCHANGED <<connected, pending, messages, pc, nextId>>
  /\ last' = NoCall

DirectTopicSubscribe(c, dest, id, seen) ==
  /\ TopicSubscribe(c, dest, id, seen)
  /\ UNCHANGED <<connected, pending, messages, pc, nextId>>
  /\ last' = NoCall

DirectTopicUnsubscribe(c, dest, id) ==
  /\ TopicUnsubscribe(c, dest, id)
  /\ UNCHANGED <<connected, pending, messages, pc, nextId>>
  /\ last' = NoCall

\* ------------------------------------------------ _subscribe, _unsubscribe

Subscribe(c, f, ok, seen) ==
  /\ pc[c] = "idle"
  /\ Dispatch(c, f) = "_subscribe"
  /\ LET h == f.headers
         was == connected[c]
     IN IF ~Has(h, "id")
        THEN /\ last' = HandlerRaised(c, f, was, <<>>, NoSubscribeIdMsg, "notcalled", ok)
             /\ UNCHANGED <<q_subs, t_subs, cur>>
        ELSE IF Falsy(h, "destination")
        THEN /\ last' = HandlerRaised(c, f, was, <<>>, NoSubscribeDestMsg, "notcalled", ok)
             /\ UNCHANGED <<q_subs, t_subs, cur>>
        ELSE /\ IF IsQueueDest(h["destination"])
                THEN QueueSubscribe(c, h["destination"], h["id"])
                ELSE TopicSubscribe(c, h["destination"], h["id"], seen)
             /\ last' = AfterHandler(c, f, "_subscribe", was, <<>>, "notcalled", ok)
  /\ UNCHANGED <<connected, pending, messages, pc, nextId>>

Unsubscribe(c, f, ok) ==
  /\ pc[c] = "idle"
  /\ Dispatch(c, f) = "_unsubscribe"
  /\ LET h == f.headers
         was == connected[c]
     IN IF ~Has(h, "id")
        THEN /\ last' = HandlerRaised(c, f, was, <<>>, NoUnsubscribeIdMsg, "notcalled", ok)
             /\ UNCHANGED <<q_subs, t_subs, cur>>
        ELSE IF Falsy(h, "destination")
        THEN /\ last' = HandlerRaised(c, f, was, <<>>, NoUnsubscribeDestMsg, "notcalled", ok)
             /\ UNCHANGED <<q_subs, t_subs, cur>>
        ELSE /\ IF IsQueueDest(h["destination"])
                THEN QueueUnsubscribe(c, h["destination"], h["id"])
                ELSE TopicUnsubscribe(c, h["destination"], h["id"])
             /\ last' = AfterHandler(c, f, "_unsubscribe", was, <<>>, "notcalled", ok)
  /\ UNCHANGED <<connected, pending, messages, pc, nextId>>

\* ------------------------------------------------------ the managers' send

\* message.cmd = 'message'; message.headers.setdefault('message-id', uuid4())
Stamp(f, fid) ==
  [fid |-> fid, cmd |-> "message",
   headers |-> SetDefault(f.headers, "message-id", <<"uuid", fid>>),
   body |-> f.body]

\* the send_frame calls of one send, per subscription in the order made
NoCalls == [s \in {} |-> <<>>]

CallTwice(calls, s, headers) ==
  LET call == [headers |-> headers, status |-> "in flight"]
  IN (s :> <<call, call>>) @@ calls

Call(calls, s, headers) ==
  LET call == [headers |-> headers, status |-> "in flight"]
  IN IF s \in DOMAIN calls THEN [calls EXCEPT ![s] = Append(@, call)]
     ELSE (s :> <<call>>) @@ calls

\* what one call of a manager's send has done so far; start is the set a topic
\* send set out to iterate
SendRec(mgr, f, msg, c, calls, start) ==
  [kind |-> "send", mgr |-> mgr, sender |-> c, fid |-> msg.fid, given |-> f.headers,
   headers |-> msg.headers,
   calls |-> calls, outcome |-> "in flight", exc |-> "", stored |-> FALSE,
   start |-> start, changed |-> FALSE, bad |-> {}]

SetStatus(rec, s, st) == [rec EXCEPT !.calls[s][Len(rec.calls[s])].status = st]

Returned(rec) == [rec EXCEPT !.outcome = "returned"]
Raised(rec, msg) == [rec EXCEPT !.outcome = "raised", !.exc = msg]

\* send returned to its caller: to process_frame's try, or to a direct caller
SendReturned(c, via, f, was, rec, ok) ==
  IF via = "frame"
  THEN last' = [AfterHandler(c, f, "_send", was, <<>>, "notcalled", ok)
                  EXCEPT !.send = Returned(rec)]
  ELSE last' = Returned(rec)

SendRaised(c, via, f, was, rec, msg, ok) ==
  IF via = "frame"
  THEN last' = [HandlerRaised(c, f, was, <<>>, msg, "notcalled", ok)
                  EXCEPT !.send = Raised(rec, msg)]
  ELSE last' = Raised(rec, msg)

NoDestinationMsg == "Cannot send frame with no destination"

\* either manager's send of a frame whose destination is missing or empty
SendValueError(c, f, mgr) ==
  /\ pc[c] = "idle"
  /\ Falsy(f.headers, "destination")
  /\ last' = Raised([kind |-> "send", mgr |-> mgr, sender |-> c, fid |-> 0,
                      given |-> f.headers,
                         headers |-> f.headers, calls |-> NoCalls,
                         outcome |-> "in flight", exc |-> "", stored |-> FALSE,
                         start |-> {}, changed |-> FALSE, bad |-> {}],
                        NoDestinationMsg)
  /\ UNCHANGED <<connected, q_subs, t_subs, pending, messages, pc, cur, nextId>>

EligibleNone(dest) == {}

\* AsyncQueueManager.send: the subscribers without a pending frame
Eligible(dest) == { s \in subscribers(q_subs, dest) : s \notin DOMAIN pending }

\* AsyncQueueManager.send with no eligible subscriber: store.enqueue
QueueSendEnqueue(c, f, via, ok) ==
  /\ pc[c] = "idle"
  /\ Truthy(f.headers, "destination")
  /\ nextId <= MaxMsgs
  /\ LET msg == Stamp(f, nextId)
         dest == msg.headers["destination"]
     IN /\ Eligible(dest) = {}
        /\ messages' = enqueue(messages, dest, msg)
        /\ SendReturned(c, via, f, connected[c],
                        [SendRec("queue", f, msg, c, NoCalls, {}) EXCEPT !.stored = TRUE],
                        ok)
  /\ nextId' = nextId + 1
  /\ UNCHANGED <<connected, q_subs, t_subs, pending, pc, cur>>

\* AsyncQueueManager.send with no eligible subscriber and a store whose
\* enqueue raises, as a store over a network connection may
QueueSendStoreFails(c, f, via, ok) ==
  /\ pc[c] = "idle"
  /\ Truthy(f.headers, "destination")
  /\ nextId <= MaxMsgs
  /\ LET msg == Stamp(f, nextId)
         dest == msg.headers["destination"]
     IN /\ Eligible(dest) = {}
        /\ SendRaised(c, via, f, connected[c], SendRec("queue", f, msg, c, NoCalls, {}),
                      StoreFailedMsg, ok)
  /\ nextId' = nextId + 1
  /\ UNCHANGED <<connected, q_subs, t_subs, pending, messages, pc, cur>>

\* AsyncQueueManager.send with an eligible subscriber: scheduler.choice, then
\* _send_frame sets the subscription header and awaits send_frame
QueueSendDeliver(c, f, via, selected) ==
  /\ pc[c] = "idle"
  /\ Truthy(f.headers, "destination")
  /\ nextId <= MaxMsgs
  /\ LET msg == Stamp(f, nextId)
         dest == msg.headers["destination"]
         frame == [msg EXCEPT !.headers = SetItem(@, "subscription", selected.id)]
     IN /\ selected \in Eligible(dest)
        /\ cur' = [cur EXCEPT ![c] =
                     [kind |-> "queue", via |-> via, f |-> f, was |-> connected[c],
                      frame |-> frame, dest |-> dest, sel |-> selected,
                      rec |-> SendRec("queue", f, frame, c,
                                      Call(NoCalls, selected, frame.headers),
                                      {})]]
  /\ pc' = [pc EXCEPT ![c] = "qsend"]
  /\ nextId' = nextId + 1
  /\ UNCHANGED <<connected, q_subs, t_subs, pending, messages>>
  /\ last' = NoCall

\* the subscriber's send_frame returns (subOk) or raises
QueueSendReturn(c, subOk, ok) ==
  /\ pc[c] = "qsend"
  /\ LET x == cur[c]
     IN IF subOk
        THEN SendReturned(c, x.via, x.f, x.was, SetStatus(x.rec, x.sel, "ok"), ok)
        ELSE SendRaised(c, x.via, x.f, x.was, SetStatus(x.rec, x.sel, "failed"),
                        SendFrameFailedMsg, ok)
  /\ pc' = [pc EXCEPT ![c] = "idle"]
  /\ cur' = [cur EXCEPT ![c] = Idle]
  /\ UNCHANGED <<connected, q_subs, t_subs, pending, messages, nextId>>

\* ----------------------------------------------------- AsyncTopicManager.send

\* frame = deepcopy(message); frame.headers["subscription"] = subscriber.id
TopicCallUnlabelled(calls, msg, subscriber) ==
  Call(calls, subscriber, msg.headers)

\* every frame handed out so far is the one object that is relabelled
TopicCallShared(calls, msg, subscriber) ==
  LET h == SetItem(msg.headers, "subscription", subscriber.id)
      relabelled == [s \in DOMAIN calls |->
                       [i \in DOMAIN calls[s] |-> [calls[s][i] EXCEPT !.headers = h]]]
  IN Call(relabelled, subscriber, h)

TopicCall(calls, msg, subscriber) ==
  Call(calls, subscriber, SetItem(msg.headers, "subscription", subscriber.id))

\* for s in bad_subscribers: await self.unsubscribe(s.connection, dest, id=s.id)
RECURSIVE UnsubscribeAll(_, _, _)
UnsubscribeAll(reg, bad, dest) ==
  IF bad = {} THEN reg
  ELSE LET s == CHOOSE b \in bad : TRUE
       IN UnsubscribeAll(unsubscribe(reg, s.connection, dest, s.id), bad \ {s}, dest)

\* a topic send to a destination that is no key: the loop body never runs
TopicSendEmpty(c, f, via, ok) ==
  /\ pc[c] = "idle"
  /\ Truthy(f.headers, "destination")
  /\ nextId <= MaxMsgs
  /\ LET msg == Stamp(f, nextId)
     IN /\ msg.headers["destination"] \notin DOMAIN t_subs
        /\ SendReturned(c, via, f, connected[c],
                        SendRec("topic", f, msg, c, NoCalls, {}), ok)
  /\ nextId' = nextId + 1
  /\ UNCHANGED <<connected, q_subs, t_subs, pending, messages, pc, cur>>

\* a topic send starts iterating the destination's set and awaits the first
\* subscriber's send_frame
TopicSendStart(c, f, via, subscriber) ==
  /\ pc[c] = "idle"
  /\ Truthy(f.headers, "destination")
  /\ nextId <= MaxMsgs
  /\ LET msg == Stamp(f, nextId)
         dest == msg.headers["destination"]
     IN /\ dest \in DOMAIN t_subs
        /\ subscriber \in t_subs[dest]
        /\ cur' = [cur EXCEPT ![c] =
                     [kind |-> "topic", via |-> via, f |-> f, was |-> connected[c],
                      frame |-> msg, dest |-> dest, sel |-> subscriber,
                      rec |-> SendRec("topic", f, msg, c,
                                      TopicCall(NoCalls, msg, subscriber), t_subs[dest]),
                      remaining |-> t_subs[dest] \ {subscriber},
                      bad |-> {}, live |-> TRUE, held |-> t_subs[dest],
                      isize |-> Cardinality(t_subs[dest]),
                      osize |-> Cardinality(t_subs[dest]),
                      changed |-> FALSE]]
  /\ pc' = [pc EXCEPT ![c] = "tsend"]
  /\ nextId' = nextId + 1
  /\ UNCHANGED <<connected, q_subs, t_subs, pending, messages>>
  /\ last' = NoCall

BadAfterForgetful(x, subOk) == x.bad

BadAfter(x, subOk) == IF subOk THEN x.bad ELSE x.bad \cup {x.sel}

\* the record of a topic send after the send_frame it awaited came back
TopicRec(x, subOk) ==
  [SetStatus(x.rec, x.sel, IF subOk THEN "ok" ELSE "failed")
     EXCEPT !.changed = x.changed, !.bad = BadAfter(x, subOk)]

\* send_frame returned or raised and the iterator yields the next subscriber
TopicSendNext(c, subOk, subscriber) ==
  /\ pc[c] = "tsend"
  /\ LET x == cur[c]
     IN /\ x.osize = x.isize
        /\ subscriber \in x.remaining
        /\ cur' = [cur EXCEPT ![c] =
                     [x EXCEPT !.sel = subscriber,
                               !.remaining = @ \ {subscriber},
                               !.bad = BadAfter(x, subOk),
                               !.rec = [TopicRec(x, subOk) EXCEPT
                                          !.calls = TopicCall(@, x.frame, subscriber)]]]
  /\ UNCHANGED <<connected, q_subs, t_subs, pending, messages, pc, nextId>>
  /\ last' = NoCall

\* send_frame returned or raised and the iterator finds its set resized:
\* RuntimeError leaves send before the failing subscribers are unsubscribed
TopicSendAborted(c, subOk, ok) ==
  /\ pc[c] = "tsend"
  /\ LET x == cur[c]
     IN /\ x.osize # x.isize
        /\ SendRaised(c, x.via, x.f, x.was, TopicRec(x, subOk), SetChangedMsg, ok)
  /\ pc' = [pc EXCEPT ![c] = "idle"]
  /\ cur' = [cur EXCEPT ![c] = Idle]
  /\ UNCHANGED <<connected, q_subs, t_subs, pending, messages, nextId>>

\* send_frame returned or raised, the iterator is exhausted, and the failing
\* subscribers are unsubscribed
TopicSendFinished(c, subOk, ok) ==
  /\ pc[c] = "tsend"
  /\ LET x == cur[c]
     IN /\ x.osize = x.isize
        /\ x.remaining = {}
        /\ t_subs' = UnsubscribeAll(t_subs, BadAfter(x, subOk), x.dest)
        /\ cur' = [InPlace(c, x.dest, subscribers(t_subs, x.dest),
                           subscribers(t_subs', x.dest),
                           KeyDeleted(t_subs, t_subs', x.dest), FALSE)
                     EXCEPT ![c] = Idle]
        /\ SendReturned(c, x.via, x.f, x.was, TopicRec(x, subOk), ok)
  /\ pc' = [pc EXCEPT ![c] = "idle"]
  /\ UNCHANGED <<connected, q_subs, pending, messages, nextId>>

\* send called directly, MaxTopicSends times at most
DirectTopicSendEmpty(c, f) ==
  nextId <= MaxTopicSends /\ TopicSendEmpty(c, f, "direct", TRUE)

DirectTopicSendStart(c, f, subscriber) ==
  nextId <= MaxTopicSends /\ TopicSendStart(c, f, "direct", subscriber)

\* ------------------------------------------------------------------ _send

SendNoDestination(c, f, ok) ==
  /\ pc[c] = "idle"
  /\ Dispatch(c, f) = "_send"
  /\ Falsy(f.headers, "destination")
  /\ last' = HandlerRaised(c, f, connected[c], <<>>, NoSendDestMsg, "notcalled", ok)
  /\ UNCHANGED <<connected, q_subs, t_subs, pending, messages, pc, cur, nextId>>

ToQueue(c, f) ==
  /\ Dispatch(c, f) = "_send"
  /\ Truthy(f.headers, "destination")
  /\ IsQueueDest(f.headers["destination"])

ToTopic(c, f) ==
  /\ Dispatch(c, f) = "_send"
  /\ Truthy(f.headers, "destination")
  /\ ~IsQueueDest(f.headers["destination"])

SendQueueEnqueue(c, f, ok) == ToQueue(c, f) /\ QueueSendEnqueue(c, f, "frame", ok)
SendQueueDeliver(c, f, s) == ToQueue(c, f) /\ QueueSendDeliver(c, f, "frame", s)
SendQueueStoreFails(c, f, ok) == ToQueue(c, f) /\ QueueSendStoreFails(c, f, "frame", ok)
SendTopicEmpty(c, f, ok) == ToTopic(c, f) /\ TopicSendEmpty(c, f, "frame", ok)
SendTopicStart(c, f, s) == ToTopic(c, f) /\ TopicSendStart(c, f, "frame", s)

\* ------------------------------------------- the managers' disconnect methods

RECURSIVE RequeueAll(_, _)
RequeueAll(m, subs) ==
  IF subs = {} THEN m
  ELSE LET s == CHOOSE x \in subs : TRUE
       IN RequeueAll(requeue(m, pending[s].headers["destination"], pending[s]),
                     subs \ {s})

PendingOf(c) == { s \in DOMAIN pending : s.connection = c }

\* the frames whose send_frame on connection c has started and not come back
InFlightTo(c) ==
  { cur[x].frame : x \in { y \in Conns : pc[y] = "qsend" /\ cur[y].sel.connection = c } }

QueueManagerDisconnect(c) ==
  /\ messages' = RequeueAll(messages, PendingOf(c))
  /\ pending' = [s \in DOMAIN pending \ PendingOf(c) |-> pending[s]]
  /\ q_subs' = disconnect(q_subs, c)
  /\ last' = [kind |-> "queue disconnect", conn |-> c, inflight |-> InFlightTo(c)]
  /\ UNCHANGED <<connected, t_subs, pc, cur, nextId>>

TopicManagerDisconnect(c) ==
  /\ t_subs' = disconnect(t_subs, c)
  /\ cur' = Rebound(t_subs, t_subs')
  /\ UNCHANGED <<connected, q_subs, pending, messages, pc, nextId>>
  /\ last' = [kind |-> "topic disconnect", conn |-> c]

\* ------------------------------------------------- calls on the queue store

QueueB == <<"/queue/", "b">>
StoreDests == {QueueA, QueueB}

\* a frame object handed to the store
StoreFrame(fid, d) ==
  [fid |-> fid, cmd |-> "message", headers |-> ("destination" :> d), body |-> ""]

Stored(m) == UNION { SeqToSet(m[d]) : d \in DOMAIN m }

StoreCall(op, d, f, result) ==
  [kind |-> "store", op |-> op, dest |-> d, frame |-> f, result |-> result,
   before |-> messages]

StoreEnqueue(d) ==
  /\ nextId <= MaxStore
  /\ messages' = enqueue(messages, d, StoreFrame(nextId, d))
  /\ nextId' = nextId + 1
  /\ last' = StoreCall("enqueue", d, <<StoreFrame(nextId, d)>>, <<>>)
  /\ UNCHANGED <<connected, q_subs, t_subs, pending, pc, cur>>

\* requeue of a frame the store does not hold: a new one or one dequeued before
StoreRequeue(d, fid) ==
  /\ fid <= MaxStore
  /\ fid <= nextId
  /\ StoreFrame(fid, d) \notin Stored(messages)
  /\ messages' = requeue(messages, d, StoreFrame(fid, d))
  /\ nextId' = IF fid = nextId THEN nextId + 1 ELSE nextId
  /\ last' = StoreCall("requeue", d, <<StoreFrame(fid, d)>>, <<>>)
  /\ UNCHANGED <<connected, q_subs, t_subs, pending, pc, cur>>

StoreDequeue(d) ==
  /\ messages' = dequeue(messages, d)
  /\ last' = StoreCall("dequeue", d, <<>>, DequeueResult(messages, d))
  /\ UNCHANGED <<connected, q_subs, t_subs, pending, pc, cur, nextId>>

StoreSize(d) ==
  /\ messages' = Touch(messages, d)
  /\ last' = StoreCall("size", d, <<>>, <<size(messages, d)>>)
  /\ UNCHANGED <<connected, q_subs, t_subs, pending, pc, cur, nextId>>

StoreHasFrames(d) ==
  /\ messages' = Touch(messages, d)
  /\ last' = StoreCall("has_frames", d, <<>>, <<has_frames(messages, d)>>)
  /\ UNCHANGED <<connected, q_subs, t_subs, pending, pc, cur, nextId>>

StoreDestinations ==
  /\ last' = StoreCall("destinations", <<>>, <<>>, <<destinations(messages)>>)
  /\ UNCHANGED <<connected, q_subs, t_subs, pending, messages, pc, cur, nextId>>

\* ------------------------------------------------------- the frame codec
\* A text is a sequence of characters; LF is the newline, NUL is '\x00', and
\* a word such as "SEND" or "content-length" stands for its letters as one
\* character.  A str and a bytes object are told apart by their type.

LF == "\n"
NUL == "NUL"
SP == " "

MaxHeaderLines == 2
MaxBodyLines == 1

StrText(t) == [type |-> "str", text |-> t]
BytesText(t) == [type |-> "bytes", text |-> t]

\* str.split(sep)
RECURSIVE Split(_, _)
Split(s, sep) ==
  IF s = <<>> THEN << <<>> >>
  ELSE IF Head(s) = sep THEN << <<>> >> \o Split(Tail(s), sep)
  ELSE LET rest == Split(Tail(s), sep)
       IN << <<Head(s)>> \o Head(rest) >> \o Tail(rest)

\* str.strip()
RECURSIVE LStrip(_)
LStrip(s) == IF s # <<>> /\ Head(s) = SP THEN LStrip(Tail(s)) ELSE s

RECURSIVE RStrip(_)
RStrip(s) ==
  IF s # <<>> /\ s[Len(s)] = SP THEN RStrip(SubSeq(s, 1, Len(s) - 1)) ELSE s

Strip(s) == RStrip(LStrip(s))

\* str.find(ch): the index from 0 of the first ch, -1 if there is none
Find(s, ch) ==
  IF \E i \in DOMAIN s : s[i] = ch
  THEN (CHOOSE i \in DOMAIN s : s[i] = ch /\ \A j \in 1..(i - 1) : s[j] # ch) - 1
  ELSE -1

\* s[:index] and s[index+1:] for an index that str.find returned
UpTo(s, index) ==
  IF index >= 0 THEN SubSeq(s, 1, index) ELSE SubSeq(s, 1, Len(s) - 1)
After(s, index) == SubSeq(s, index + 2, Len(s))

\* head_data of parse_from_text: `if index:` skips a line that starts with
\* the colon and takes a line without colon
head_data(headers, f) ==
  LET index == Find(f, ":")
  IN IF index # 0
     THEN SetItem(headers, Strip(UpTo(f, index)), Strip(After(f, index)))
     ELSE headers

\* body_data of parse_from_text
body_data(body, f) == IF Strip(f) # <<>> THEN body \o Strip(f) ELSE body

\* the loop of parse_from_text over the lines after the command
RECURSIVE ParseFields(_, _, _, _)
ParseFields(fields, inBody, headers, body) ==
  IF fields = <<>> THEN [headers |-> headers, body |-> body]
  ELSE IF Strip(Head(fields)) = <<>>
  THEN ParseFields(Tail(fields), TRUE, headers, body)
  ELSE IF inBody
  THEN ParseFields(Tail(fields), TRUE, headers, body_data(body, Head(fields)))
  ELSE ParseFields(Tail(fields), FALSE, head_data(headers, Head(fields)), body)

IsNotNul(ch) == ch # NUL

parse_from_text(message) ==
  LET breakdown == Split(message, LF)
      parsed == ParseFields(Tail(breakdown), FALSE, EmptyHeaders, <<>>)
  IN Frame(Head(breakdown), parsed.headers, SelectSeq(parsed.body, IsNotNul))

TypeErrorMsg == "a bytes-like object is required, not 'str'"

\* Frame.from_text: message.split('\n') raises for a bytes object
from_text(text) ==
  IF text.type = "str"
  THEN [outcome |-> "returned", frame |-> parse_from_text(text.text)]
  ELSE [outcome |-> "raised", exc |-> TypeErrorMsg]

ContentLength == <<"content-length">>

\* len(self.body), an int
IntValue(n) == <<"int", ToString(n)>>

\* "{0}:{1}\n".format(key, value) renders an int by its digits
Rendered(v) == IF Len(v) = 2 /\ v[1] = "int" THEN <<v[2]>> ELSE v

RECURSIVE HeaderParts(_, _)
HeaderParts(headers, keys) ==
  IF keys = {} THEN <<>>
  ELSE LET key == CHOOSE k \in keys : TRUE
       IN key \o <<":">> \o Rendered(headers[key]) \o <<LF>>
            \o HeaderParts(headers, keys \ {key})

\* Frame.pack sets content-length on the frame itself when it has none
packed_frame(frame) ==
  [frame EXCEPT !.headers = SetDefault(@, ContentLength, IntValue(Len(frame.body)))]

\* the bytes Frame.pack returns
pack(frame) ==
  LET f == packed_frame(frame)
  IN BytesText(f.cmd \o <<LF>> \o HeaderParts(f.headers, DOMAIN f.headers)
                 \o <<LF>> \o f.body \o <<NUL>>)

\* bytes.decode('utf-8')
decode(b) == StrText(b.text)

\* the texts given to Frame.from_text
RECURSIVE JoinLines(_)
JoinLines(lines) ==
  IF lines = <<>> THEN <<>>
  ELSE IF Len(lines) = 1 THEN lines[1]
  ELSE lines[1] \o <<LF>> \o JoinLines(Tail(lines))

SeqsUpTo(S, n) == UNION { [1..k -> S] : k \in 0..n }

CommandLines == { <<"SEND">>, <<>> }

HeaderLines ==
  { <<"k", ":", "v">>, <<"k", ":">>, <<SP, ":", "v">>, <<"k">>,
    <<"content-length", ":", "1">>, <<SP, "k", SP, ":", SP, "v", SP>> }

BodyLines == { <<"b">>, <<SP, "b", SP>>, <<"b", NUL>> }

Texts ==
  { JoinLines(<<c>> \o hs \o tail) :
      c \in CommandLines,
      hs \in SeqsUpTo(HeaderLines, MaxHeaderLines),
      tail \in {<<>>} \cup { << <<>> >> \o bs : bs \in SeqsUpTo(BodyLines, MaxBodyLines) } }

InitCodec ==
  /\ connected = [c \in Conns |-> FALSE]
  /\ q_subs = EmptyDict
  /\ t_subs = EmptyDict
  /\ pending = EmptyDict
  /\ messages = EmptyDict
  /\ pc = [c \in Conns |-> "idle"]
  /\ cur = [c \in Conns |-> Idle]
  /\ nextId = 1
  /\ last \in { [kind |-> "text", text |-> StrText(t)] : t \in Texts }

\* F = Frame.from_text(B)
FromText ==
  /\ last.kind = "text"
  /\ last' = [kind |-> "frame", text |-> last.text, frame |-> from_text(last.text).frame]
  /\ UNCHANGED <<connected, q_subs, t_subs, pending, messages, pc, cur, nextId>>

\* F.pack()
Pack ==
  /\ last.kind = "frame"
  /\ last' = [kind |-> "packed", text |-> last.text,
              frame |-> packed_frame(last.frame), packed |-> pack(last.frame)]
  /\ UNCHANGED <<connected, q_subs, t_subs, pending, messages, pc, cur, nextId>>

\* Frame.from_text on what pack returned, as it is or decoded
Reparse(decoded) ==
  /\ last.kind = "packed"
  /\ last' = [kind |-> "reparsed", text |-> last.text, frame |-> last.frame,
              decoded |-> decoded,
              result |-> from_text(IF decoded THEN decode(last.packed) ELSE last.packed)]
  /\ UNCHANGED <<connected, q_subs, t_subs, pending, messages, pc, cur, nextId>>

\* ----------------------------------------------------------- specifications

\* process_frame and what it leaves suspended, for the sessions C, of which
\* the sessions CS send, and the frames F (by command: connect, disconnect,
\* subscribe, send)
Sessions(C, CS, F, FC, FD, FS, FM) ==
  \/ \E c \in C, f \in F : Rejected(c, f)
  \/ \E c \in C, f \in FC, a \in AuthOutcomes, ok \in BOOLEAN : Connect(c, f, a, ok)
  \/ \E c \in C, f \in FD, ok \in BOOLEAN : Disconnect(c, f, ok)
  \/ \E c \in C, f \in FS, ok \in BOOLEAN, seen \in BOOLEAN : Subscribe(c, f, ok, seen)
  \/ \E c \in C, f \in FS, ok \in BOOLEAN : Unsubscribe(c, f, ok)
  \/ \E c \in CS, f \in FM, ok \in BOOLEAN : SendNoDestination(c, f, ok)
  \/ \E c \in CS, f \in FM, ok \in BOOLEAN : SendQueueEnqueue(c, f, ok)
  \/ \E c \in CS, f \in FM, s \in Subscriptions : SendQueueDeliver(c, f, s)
  \/ \E c \in C, subOk \in BOOLEAN, ok \in BOOLEAN : QueueSendReturn(c, subOk, ok)
  \/ \E c \in CS, f \in FM, ok \in BOOLEAN : SendTopicEmpty(c, f, ok)
  \/ \E c \in CS, f \in FM, s \in Subscriptions : SendTopicStart(c, f, s)
  \/ \E c \in C, subOk \in BOOLEAN, ok \in BOOLEAN : TopicSendFinished(c, subOk, ok)

\* a suspended topic send resumes with other subscribers of its destination
Iterations(C) ==
  \/ \E c \in C, subOk \in BOOLEAN, s \in Subscriptions : TopicSendNext(c, subOk, s)
  \/ \E c \in C, subOk \in BOOLEAN, ok \in BOOLEAN : TopicSendAborted(c, subOk, ok)

\* every session of the broker, with the frames of well-behaved peers
Next ==
  \/ Sessions(Conns, Senders, PeerFrames, PeerConnectFrames, PeerDisconnectFrames,
              PeerSubscribeFrames, PeerSendFrames)
  \/ Iterations(Senders)

Spec == Init /\ [][Next]_vars

\* one session, with every frame a client may send; alone, its topic sends
\* meet one subscription at most
NextSession ==
  \/ Sessions({1}, {1}, InFrames, ConnectFrames \cup OtherFrames, DisconnectFrames,
              SubscribeFrames, SendFrames)
  \/ \E f \in SendFrames, ok \in BOOLEAN : SendQueueStoreFails(1, f, ok)

SpecSession == Init /\ [][NextSession]_vars

\* the queue manager called directly by concurrent tasks
NextQueue ==
  \/ \E s \in QueueSubscriptions : DirectQueueSubscribe(s.connection, QueueA, s.id)
  \/ \E s \in Subscriptions : DirectQueueUnsubscribe(s.connection, QueueA, s.id)
  \/ \E c \in Conns : QueueManagerDisconnect(c)
  \/ \E c \in QueueSenders, f \in Unaddressed : SendValueError(c, f, "queue")
  \/ \E c \in QueueSenders, f \in QueueMessages : QueueSendEnqueue(c, f, "direct", TRUE)
  \/ \E c \in QueueSenders, f \in QueueMessages, s \in Subscriptions :
       QueueSendDeliver(c, f, "direct", s)
  \/ \E c \in QueueSenders, subOk \in BOOLEAN : QueueSendReturn(c, subOk, TRUE)

SpecQueue == Init /\ [][NextQueue]_vars

\* the topic manager called directly: any task subscribes, unsubscribes and
\* disconnects connections while the task of TopicSenders sends
NextTopic ==
  \/ \E r \in TopicRegistrations, seen \in BOOLEAN :
       DirectTopicSubscribe(r.s.connection, r.d, r.s.id, seen)
  \/ \E s \in Subscriptions, d \in {TopicX, TopicY} :
       DirectTopicUnsubscribe(s.connection, d, s.id)
  \/ \E c \in Conns : TopicManagerDisconnect(c)
  \/ \E c \in TopicSenders, f \in Unaddressed : SendValueError(c, f, "topic")
  \/ \E c \in TopicSenders, f \in TopicMessages : DirectTopicSendEmpty(c, f)
  \/ \E c \in TopicSenders, f \in TopicMessages, s \in Subscriptions :
       DirectTopicSendStart(c, f, s)
  \/ \E c \in TopicSenders, subOk \in BOOLEAN, s \in Subscriptions :
       TopicSendNext(c, subOk, s)
  \/ \E c \in TopicSenders, subOk \in BOOLEAN : TopicSendAborted(c, subOk, TRUE)
  \/ \E c \in TopicSenders, subOk \in BOOLEAN : TopicSendFinished(c, subOk, TRUE)

SpecTopic == Init /\ [][NextTopic]_vars

\* both managers called directly: tasks subscribe, unsubscribe and disconnect
\* connections while the task of Senders sends to the queue and to the topic
NextManagers ==
  \/ \E s \in ManagerQueueSubscriptions : DirectQueueSubscribe(s.connection, QueueA, s.id)
  \/ \E s \in ManagerQueueSubscriptions : DirectQueueUnsubscribe(s.connection, QueueA, s.id)
  \/ \E s \in ManagerTopicSubscriptions, seen \in BOOLEAN :
       DirectTopicSubscribe(s.connection, TopicX, s.id, seen)
  \/ \E s \in ManagerTopicSubscriptions : DirectTopicUnsubscribe(s.connection, TopicX, s.id)
  \/ \E c \in Conns : QueueManagerDisconnect(c)
  \/ \E c \in Conns : TopicManagerDisconnect(c)
  \/ \E c \in Senders, f \in ManagerQueueMessages : QueueSendEnqueue(c, f, "direct", TRUE)
  \/ \E c \in Senders, f \in ManagerQueueMessages, s \in Subscriptions :
       QueueSendDeliver(c, f, "direct", s)
  \/ \E c \in Senders, subOk \in BOOLEAN : QueueSendReturn(c, subOk, TRUE)
  \/ \E c \in Senders, f \in TopicMessages : DirectTopicSendEmpty(c, f)
  \/ \E c \in Senders, f \in TopicMessages, s \in Subscriptions :
       DirectTopicSendStart(c, f, s)
  \/ \E c \in Senders, subOk \in BOOLEAN, s \in Subscriptions : TopicSendNext(c, subOk, s)
  \/ \E c \in Senders, subOk \in BOOLEAN : TopicSendAborted(c, subOk, TRUE)
  \/ \E c \in Senders, subOk \in BOOLEAN : TopicSendFinished(c, subOk, TRUE)

SpecManagers == Init /\ [][NextManagers]_vars

\* the codec applied to a text: from_text, pack, from_text again
NextCodec ==
  \/ FromText
  \/ Pack
  \/ \E decoded \in BOOLEAN : Reparse(decoded)

SpecCodec == InitCodec /\ [][NextCodec]_vars

\* ------------------------ the subscription registry called directly
\* One AsyncSubscriptionManager, kept in t_subs, with no send running: last
\* holds the call that was made and what subscriber_count answered for its
\* destination before and after it (for disconnect, the first destination).

RegistrySubscriptions ==
  {AsyncSubscription(1, "s1"), AsyncSubscription(1, "s2"), AsyncSubscription(2, "s1")}
RegistryDests == {TopicX, TopicY}

RegistryCall(op, c, d, id, before, after) ==
  [kind |-> "registry", op |-> op, conn |-> c, dest |-> d, id |-> id,
   outcome |-> "returned", had |-> subscriber_count(before, d),
   count |-> subscriber_count(after, d)]

RegistrySubscribe(c, d, id) ==
  /\ t_subs' = subscribe(t_subs, c, d, id)
  /\ last' = RegistryCall("subscribe", c, d, id, t_subs, t_subs')
  /\ UNCHANGED <<connected, q_subs, pending, messages, pc, cur, nextId>>

RegistryUnsubscribe(c, d, id) ==
  /\ t_subs' = unsubscribe(t_subs, c, d, id)
  /\ last' = RegistryCall("unsubscribe", c, d, id, t_subs, t_subs')
  /\ UNCHANGED <<connected, q_subs, pending, messages, pc, cur, nextId>>

RegistryDisconnect(c) ==
  /\ t_subs' = disconnect(t_subs, c)
  /\ last' = RegistryCall("disconnect", c, TopicX, "", t_subs, t_subs')
  /\ UNCHANGED <<connected, q_subs, pending, messages, pc, cur, nextId>>

NextRegistry ==
  \/ \E s \in RegistrySubscriptions, d \in RegistryDests :
       RegistrySubscribe(s.connection, d, s.id)
  \/ \E s \in RegistrySubscriptions, d \in RegistryDests :
       RegistryUnsubscribe(s.connection, d, s.id)
  \/ \E c \in Conns : RegistryDisconnect(c)

SpecRegistry == Init /\ [][NextRegistry]_vars

\* the queue store called directly
NextStore ==
  \/ \E d \in StoreDests : StoreEnqueue(d)
  \/ \E d \in StoreDests, fid \in 1..MaxStore : StoreRequeue(d, fid)
  \/ \E d \in StoreDests : StoreDequeue(d)
  \/ \E d \in StoreDests : StoreSize(d)
  \/ \E d \in StoreDests : StoreHasFrames(d)
  \/ StoreDestinations

SpecStore == Init /\ [][NextStore]_vars

\* the queue store called with enqueue, dequeue and size only, never requeue
NextFifo ==
  \/ \E d \in StoreDests : StoreEnqueue(d)
  \/ \E d \in StoreDests : StoreDequeue(d)
  \/ \E d \in StoreDests : StoreSize(d)

SpecFifo == Init /\ [][NextFifo]_vars

\* --------------------------------------------------------------- properties

\* the manager's send that the latest step finished, directly or for a frame
LastSend ==
  IF last.kind = "send" THEN last
  ELSE IF last.kind = "frame" THEN last.send
  ELSE NoSend

LastQueueSend == IF LastSend.kind = "send" THEN LastSend.mgr = "queue" ELSE FALSE
LastTopicSend == IF LastSend.kind = "send" THEN LastSend.mgr = "topic" ELSE FALSE

\* the queue sends that are suspended in send_frame or have just finished
QueueSends ==
  { cur[x].rec : x \in { y \in Conns : pc[y] = "qsend" } }
  \cup (IF LastQueueSend THEN {LastSend} ELSE {})

StoredFids ==
  UNION { { messages[d][i].fid : i \in DOMAIN messages[d] } : d \in DOMAIN messages }

AtMostOneCall(rec) ==
  \A s, t \in DOMAIN rec.calls : s = t /\ Len(rec.calls[s]) = 1

Receipts(sent) == { i \in DOMAIN sent : sent[i].cmd = "RECEIPT" }
Errors(sent) == { i \in DOMAIN sent : sent[i].cmd \in {"error", "ERROR"} }
ErrorsWith(sent, msg) ==
  { i \in Errors(sent) :
      IF Has(sent[i].headers, "message") THEN sent[i].headers["message"] = msg
      ELSE FALSE }
SentConnected(sent) == ConnectedFrame \in SeqToSet(sent)

LastFrame(cmds) == IF last.kind = "frame" THEN Lower(last.frame.cmd) \in cmds ELSE FALSE

SubscriptionsOf(reg, c) ==
  UNION { { s \in reg[d] : s.connection = c } : d \in DOMAIN reg }

\* C1: every frame passed to AsyncQueueManager.send has send_frame invoked on
\* at most one subscription and at most once, whatever other tasks subscribe,
\* unsubscribe, disconnect and send meanwhile: a send makes one call at most,
\* no two sends carry the same frame, and a frame that went to the store was
\* handed to no subscriber.
C1_AtMostOnce ==
  /\ \A r \in QueueSends :
       /\ AtMostOneCall(r)
       /\ (r.fid \in StoredFids => r.calls = NoCalls)
  /\ \A x, y \in Conns :
       pc[x] = "qsend" /\ pc[y] = "qsend" /\ x # y => cur[x].rec.fid # cur[y].rec.fid
  /\ \A x \in Conns :
       pc[x] = "qsend" /\ LastQueueSend => cur[x].rec.fid # LastSend.fid

\* a queue send delivered its frame while two subscriptions were registered
\* and another task's send was suspended in send_frame
C1_Witness ==
  /\ LastQueueSend
  /\ LastSend.outcome = "returned"
  /\ DOMAIN LastSend.calls # {}
  /\ Cardinality(subscribers(q_subs, QueueA)) >= 2
  /\ \E x \in Conns : pc[x] = "qsend"

\* C2: a topic send that returns with no failing send_frame and no change of
\* its destination's subscriptions meanwhile has invoked send_frame exactly
\* once for each subscription found at its start, with the subscription
\* header equal to that subscription's id, and for no other subscription.
C2_FanOut ==
  LastTopicSend /\ LastSend.outcome = "returned" /\ LastSend.bad = {}
    /\ ~LastSend.changed
  => /\ DOMAIN LastSend.calls = LastSend.start
     /\ \A s \in LastSend.start :
          /\ Len(LastSend.calls[s]) = 1
          /\ LastSend.calls[s][1].status = "ok"
          /\ Has(LastSend.calls[s][1].headers, "subscription")
          /\ LastSend.calls[s][1].headers["subscription"] = s.id

\* a topic send reached the subscriptions of two connections, with two ids
C2_Witness ==
  /\ LastTopicSend
  /\ LastSend.outcome = "returned"
  /\ LastSend.bad = {}
  /\ ~LastSend.changed
  /\ \E s, t \in LastSend.start : s.connection # t.connection /\ s.id # t.id

\* C3: after any sequence of subscribe, unsubscribe and disconnect, and of
\* the unsubscribes a topic send issues for failing subscribers, no key of
\* the registry maps to an empty set.
C3_NoEmptyBucket == \A d \in DOMAIN t_subs : t_subs[d] # {}

\* a topic send pruned the last subscription of its destination while the
\* other destination kept its key
C3_Witness ==
  /\ LastTopicSend
  /\ LastSend.outcome = "returned"
  /\ LastSend.bad # {}
  /\ TopicX \notin DOMAIN t_subs
  /\ TopicY \in DOMAIN t_subs

\* C4: a frame other than CONNECT that carries a receipt header, processed in
\* a connected session, gets exactly one RECEIPT with that receipt-id, sent
\* last, if its handler returns, and an ERROR and no RECEIPT if its handler
\* raises; a CONNECT frame gets no RECEIPT.
C4_ReceiptLaw ==
  /\ LastFrame(VALID_COMMANDS \ {"connect"}) /\ last.was
       /\ Has(last.frame.headers, "receipt")
     => /\ last.handler = "completed"
           => /\ Cardinality(Receipts(last.sent)) = 1
              /\ \A i \in Receipts(last.sent) :
                   /\ i = Len(last.sent)
                   /\ last.sent[i] = ReceiptFrame(last.frame.headers["receipt"])
        /\ last.handler = "raised"
           => Receipts(last.sent) = {} /\ Errors(last.sent) # {}
  /\ LastFrame({"connect"}) => Receipts(last.sent) = {}

\* C5: once a connected session's DISCONNECT frame is processed, its
\* connection holds no subscription in the queue manager's registry nor in
\* the topic manager's.
C5_DisconnectCleanup ==
  LastFrame({"disconnect"}) /\ last.was /\ last.handler = "completed"
  => SubscriptionsOf(q_subs, last.conn) = {} /\ SubscriptionsOf(t_subs, last.conn) = {}

\* C6: a SEND, SUBSCRIBE, UNSUBSCRIBE or DISCONNECT frame given to a session
\* that is not connected gets an ERROR frame whose message is "Not
\* connected, send CONNECT frame first", and the session stays not connected.
C6_CommandBeforeConnect ==
  LastFrame({"send", "subscribe", "unsubscribe", "disconnect"}) /\ ~last.was
  => ErrorsWith(last.sent, NotConnectedMsg) # {} /\ ~connected[last.conn]

\* C7: a CONNECT frame whose token is missing, or rejected by the
\* authenticator (it returns false or raises), is given an ERROR frame and no
\* CONNECTED frame and leaves connected as it was; a session becomes
\* connected only by a frame whose token the authenticator accepted.
C7_AuthenticationGate ==
  /\ LastFrame({"connect"})
       /\ (Falsy(last.frame.headers, "token") \/ last.auth \in {"rejected", "raised"})
     => /\ Errors(last.sent) # {}
        /\ ~SentConnected(last.sent)
        /\ connected[last.conn] = last.was
  /\ last.kind = "frame" /\ ~last.was /\ connected[last.conn]
     => LastFrame({"connect"}) /\ last.auth = "accepted"

\* a fresh session's CONNECT with version 1.2 and a token the authenticator
\* rejects
C7_Witness ==
  /\ LastFrame({"connect"})
  /\ ~last.was
  /\ last.frame.headers = ("accept-version" :> <<"1.2">>) @@ ("token" :> "tok")
  /\ last.auth = "rejected"
  /\ ErrorsWith(last.sent, AuthFailedMsg) # {}

AcceptsSupportedVersion(h) ==
  IF Has(h, "accept-version")
  THEN <<SUPPORTED_VERSION>> \in SeqToSet(SplitComma(h["accept-version"]))
  ELSE FALSE

\* C8: a CONNECT frame whose accept-version is missing or does not list 1.2
\* is given an ERROR frame and no CONNECTED frame and does not make the
\* session connected, even with a valid token.
C8_VersionGate ==
  LastFrame({"connect"}) /\ ~AcceptsSupportedVersion(last.frame.headers)
  => /\ Errors(last.sent) # {}
     /\ ~SentConnected(last.sent)
     /\ ~(connected[last.conn] /\ ~last.was)

\* C9: after requeue(d, f) on a destination that holds frames, the next
\* dequeue(d) returns f.
C9_RequeueAtHead ==
  (IF last.kind = "store" THEN last.op = "requeue" ELSE FALSE)
    /\ size(last.before, last.dest) > 0
  => DequeueResult(messages, last.dest) = last.frame

\* C10: the frames in flight to a connection when the queue manager
\* disconnects it are in the store afterwards.
C10_InFlightRequeued ==
  last.kind = "queue disconnect" => \A f \in last.inflight : f.fid \in StoredFids

\* C11: while a queue send is suspended in the send_frame of a subscription,
\* no other queue send to the same destination selects that subscription: two
\* suspended queue sends never have the same subscription selected.
C11_OneInFlight ==
  \A x, y \in Conns :
    pc[x] = "qsend" /\ pc[y] = "qsend" /\ x # y => cur[x].sel # cur[y].sel

\* the subscriptions whose send_frame raised during a send
FailedCalls(rec) ==
  { s \in DOMAIN rec.calls :
      \E i \in DOMAIN rec.calls[s] : rec.calls[s][i].status = "failed" }

TopicFailureSeen ==
  /\ LastFrame({"send"})
  /\ last.was
  /\ last.sendOk
  /\ LastTopicSend
  /\ FailedCalls(LastSend) # {}

\* C13: when a connected publisher's SEND to a topic is processed and the
\* send_frame of some subscriber raises, the publisher is sent no ERROR
\* frame, process_frame returns, and a SEND that carried a receipt header is
\* answered with the RECEIPT for it.
C13_PublisherUnaffected ==
  TopicFailureSeen
  => /\ Errors(last.sent) = {}
     /\ last.result = "returned"
     /\ Has(last.frame.headers, "receipt")
        => ReceiptFrame(last.frame.headers["receipt"]) \in SeqToSet(last.sent)

\* the same with a receipt header that is not empty
C13_NonEmptyReceipt ==
  TopicFailureSeen
  => /\ Errors(last.sent) = {}
     /\ last.result = "returned"
     /\ Truthy(last.frame.headers, "receipt")
        => ReceiptFrame(last.frame.headers["receipt"]) \in SeqToSet(last.sent)

\* the ERROR frames among sent that carry msg in the message header and as body
ErrorsCarrying(sent, msg) == { i \in ErrorsWith(sent, msg) : sent[i].body = msg }

\* C14: in a connected session, when the handler of a frame raises, exactly
\* one ERROR frame carrying the exception's message in its message header and
\* as its body is sent to the connection, as the last frame, and it is the
\* only ERROR frame unless the frame is a CONNECT, whose version check sends
\* its own; process_frame returns, also when that send fails, and connected
\* is unchanged.
C14_ErrorBoundary ==
  (IF last.kind = "frame" THEN last.was /\ last.handler = "raised" ELSE FALSE)
  => /\ Cardinality(ErrorsCarrying(last.sent, last.exc)) = 1
     /\ Len(last.sent) \in ErrorsCarrying(last.sent, last.exc)
     /\ Lower(last.frame.cmd) # "connect" => Cardinality(Errors(last.sent)) = 1
     /\ last.result = "returned"
     /\ connected[last.conn] = last.was

\* a connected session's SEND to a queue met a subscriber whose send_frame
\* raised, and the send of the ERROR frame failed as well
C14_Witness ==
  /\ LastFrame({"send"})
  /\ last.was
  /\ last.handler = "raised"
  /\ last.exc = SendFrameFailedMsg
  /\ LastQueueSend
  /\ FailedCalls(LastSend) # {}
  /\ ~last.sendOk
  /\ last.result = "returned"

\* the recognized commands that AsyncSTOMP12 has no method for
Unhandled ==
  { "begin", "commit", "abort", "ack", "nack", "message", "connected", "error" }

\* C15: a frame whose lowercased command is not recognized, or is recognized
\* and has no handler, gets an ERROR frame on its connection and leaves the
\* session's connected flag as it was.
C15_UnknownCommand ==
  (IF last.kind = "frame"
   THEN Lower(last.frame.cmd) \notin VALID_COMMANDS \/ Lower(last.frame.cmd) \in Unhandled
   ELSE FALSE)
  => /\ Errors(last.sent) # {}
     /\ connected[last.conn] = last.was

\* C16: a session that is not connected and receives a STOMP frame whose
\* accept-version lists 1.2 and whose token the authenticator does not
\* reject is connected afterwards and has been sent a CONNECTED frame, as
\* for the same CONNECT frame.
C16_StompIsConnect ==
  LastFrame({"stomp"}) /\ ~last.was
    /\ AcceptsSupportedVersion(last.frame.headers)
    /\ Truthy(last.frame.headers, "token")
    /\ last.auth \notin {"rejected", "raised"}
  => connected[last.conn] /\ SentConnected(last.sent)

\* C17: the frame a session processes next after its DISCONNECT does not
\* make it connected, is answered with no CONNECTED and no RECEIPT frame, and
\* changes neither registry nor the store.
C17_TerminalClosed ==
  [][ (/\ LastFrame({"disconnect"})
       /\ last.was
       /\ last.handler = "completed"
       /\ last'.kind = "frame"
       /\ last'.conn = last.conn)
      => /\ ~connected'[last.conn]
         /\ ~SentConnected(last'.sent)
         /\ Receipts(last'.sent) = {}
         /\ UNCHANGED <<q_subs, t_subs, messages>>
    ]_vars

\* the deque of destination d, empty if d is no key
Held(m, d) == IF d \in DOMAIN m THEN m[d] ELSE <<>>

Fids(q) == { q[i].fid : i \in DOMAIN q }

\* the frames enqueue numbers in the order of the calls, so the frame of q
\* that was enqueued first is the one with the least fid
Oldest(q) == CHOOSE f \in SeqToSet(q) : \A g \in SeqToSet(q) : f.fid <= g.fid

LastStore(ops) == IF last.kind = "store" THEN last.op \in ops ELSE FALSE

HandedOn(rec) == rec.stored \/ DOMAIN rec.calls # {}

\* the headers of the frames a send handed to send_frame
CallHeaders(rec) ==
  UNION { { rec.calls[s][i].headers : i \in DOMAIN rec.calls[s] } : s \in DOMAIN rec.calls }

\* C19: every MESSAGE frame the queue manager hands to send_frame or to
\* store.enqueue carries a message-id header that is not empty, and the
\* message-id the SEND frame came with, if any, is the one it carries.
C19_HeaderStamping ==
  /\ \A r \in { x \in QueueSends : HandedOn(x) } :
       /\ Truthy(r.headers, "message-id")
       /\ Has(r.given, "message-id") => r.headers["message-id"] = r.given["message-id"]
       /\ \A h \in CallHeaders(r) :
            Truthy(h, "message-id") /\ h["message-id"] = r.headers["message-id"]
  /\ \A d \in DOMAIN messages : \A i \in DOMAIN messages[d] :
       Truthy(messages[d][i].headers, "message-id")

\* the same for the sends whose SEND frame came without message-id or with
\* one that is not empty
C19_NonEmptyGiven ==
  \A r \in { x \in QueueSends :
               HandedOn(x) /\ (Has(x.given, "message-id") => Truthy(x.given, "message-id")) } :
    /\ Truthy(r.headers, "message-id")
    /\ Has(r.given, "message-id") => r.headers["message-id"] = r.given["message-id"]
    /\ \A h \in CallHeaders(r) :
         Truthy(h, "message-id") /\ h["message-id"] = r.headers["message-id"]

\* every frame a send handed to send_frame carries destination, message-id
\* and subscription, the latter being the id of the subscription it went to
WellFormed(rec) ==
  \A s \in DOMAIN rec.calls : \A i \in DOMAIN rec.calls[s] :
    LET h == rec.calls[s][i].headers
    IN /\ Has(h, "destination")
       /\ Has(h, "message-id")
       /\ Has(h, "subscription")
       /\ h["destination"] = rec.headers["destination"]
       /\ h["subscription"] = s.id

C20_QueueWitness ==
  \E c \in Senders :
    /\ pc[c] = "qsend"
    /\ Cardinality(subscribers(q_subs, QueueA)) = 2
    /\ cur[c].rec.calls[cur[c].sel][1].headers["subscription"] = cur[c].sel.id

\* C21: every ERROR frame the engine sends carries a message header and a
\* content-length header.
C21_ErrorWellFormed ==
  last.kind = "frame"
  => \A i \in Errors(last.sent) :
       Has(last.sent[i].headers, "message") /\ Has(last.sent[i].headers, "content-length")

\* the same for the ERROR frames of the error boundary alone
C21_BoundaryErrors ==
  last.kind = "frame"
  => \A i \in { j \in DOMAIN last.sent : last.sent[j].cmd = "error" } :
       Has(last.sent[i].headers, "message") /\ Has(last.sent[i].headers, "content-length")

\* every send that is suspended or has just finished
AllSends ==
  { cur[x].rec : x \in { y \in Conns : pc[y] # "idle" } }
  \cup (IF LastSend.kind = "send" THEN {LastSend} ELSE {})

QueueNamed(d) == StartsWith(d, "/queue/")

\* C22: the frames of a session reach the queue manager, its registry and
\* the store, only with destinations that start with /queue/, and the topic
\* manager only with other destinations: the queue registry and the store
\* hold queue destinations only, the topic registry holds none, a send is
\* the queue manager's exactly if its destination starts with /queue/, a
\* topic send stores nothing, and every frame a send passes to send_frame
\* names a destination of that send's manager.
C22_Routing ==
  /\ \A d \in DOMAIN q_subs \cup DOMAIN messages : QueueNamed(d)
  /\ \A d \in DOMAIN t_subs : ~QueueNamed(d)
  /\ \A r \in { x \in AllSends : Truthy(x.headers, "destination") } :
       /\ r.mgr = "queue" <=> QueueNamed(r.headers["destination"])
       /\ r.mgr = "topic" => ~r.stored
       /\ \A h \in CallHeaders(r) :
            QueueNamed(h["destination"]) <=> r.mgr = "queue"

\* a connected session that is subscribed to a queue and to a topic, with a
\* frame in the store, has had its SEND to the topic delivered
C22_Witness ==
  /\ LastFrame({"send"})
  /\ last.was
  /\ LastTopicSend
  /\ DOMAIN LastSend.calls # {}
  /\ subscribers(q_subs, QueueA) # {}
  /\ subscribers(t_subs, TopicX) # {}
  /\ Held(messages, QueueA) # <<>>

\* C23: a queue SEND that finds no subscriber leaves its frame in the store
\* under its destination (has_frames is true); a SUBSCRIBE to a queue adds the
\* subscription, leaves the store as it was, starts no send_frame for a
\* stored frame and is answered with no MESSAGE frame.
C23_NoDrain ==
  [][ /\ (IF last'.kind = "frame"
          THEN (IF last'.send.kind = "send"
                THEN last'.send.mgr = "queue" /\ last'.send.stored
                ELSE FALSE)
          ELSE FALSE)
         => LET d == last'.send.headers["destination"]
            IN /\ has_frames(messages', d)
               /\ last'.send.fid \in Fids(Held(messages', d))
      /\ (IF last'.kind = "frame"
          THEN /\ Lower(last'.frame.cmd) = "subscribe"
               /\ last'.handler = "completed"
               /\ QueueNamed(last'.frame.headers["destination"])
          ELSE FALSE)
         => LET h == last'.frame.headers
            IN /\ AsyncSubscription(last'.conn, h["id"]) \in subscribers(q_subs', h["destination"])
               /\ messages' = messages
               /\ pc' = pc
               /\ cur' = cur
               /\ \A i \in DOMAIN last'.sent : Lower(last'.sent[i].cmd) # "message"
    ]_vars

\* a session subscribed to a queue whose destination holds a stored frame
C23_Witness ==
  /\ LastFrame({"subscribe"})
  /\ last.was
  /\ last.handler = "completed"
  /\ subscribers(q_subs, QueueA) # {}
  /\ Held(messages, QueueA) # <<>>

Reparsed == last.kind = "reparsed"

\* C24: for every frame F that Frame.from_text makes of a text, parsing what
\* F.pack() returns, decoded to a str, yields a frame equal to F: same
\* command, same headers with content-length, same body.
C24_RoundTrip ==
  Reparsed /\ last.decoded
  => IF last.result.outcome = "returned" THEN last.result.frame = last.frame ELSE FALSE

\* the same for the decoded output of pack, for frames that have their own
\* content-length header and no header with an empty name
C24_DecodedWithLength ==
  Reparsed /\ last.decoded
    /\ ContentLength \in DOMAIN parse_from_text(last.text.text).headers
    /\ <<>> \notin DOMAIN last.frame.headers
  => IF last.result.outcome = "returned" THEN last.result.frame = last.frame ELSE FALSE

\* the subscriptions of dest that are registered and have no pending frame
Unpending(dest) == { s \in subscribers(q_subs, dest) : s \notin DOMAIN pending }

\* C25: a queue send of a frame with a destination does one of two things.
\* With no registered subscription free of a pending frame it calls
\* store.enqueue once, putting the frame under its destination, and no
\* send_frame; otherwise it leaves the store alone and calls send_frame once,
\* on one of those subscriptions.  A send of a frame without destination
\* raises and changes nothing.
C25_DeliverXorEnqueue ==
  [][ /\ \A c \in QueueSenders :
           pc[c] = "idle" /\ pc'[c] = "qsend"
           => /\ cur'[c].sel \in Unpending(cur'[c].dest)
              /\ DOMAIN cur'[c].rec.calls = {cur'[c].sel}
              /\ AtMostOneCall(cur'[c].rec)
              /\ ~cur'[c].rec.stored
              /\ messages' = messages
      /\ \A c \in QueueSenders :
           pc[c] = "qsend" /\ pc'[c] = "idle"
           => /\ messages' = messages
              /\ last'.calls = [s \in DOMAIN cur[c].rec.calls |->
                                  [i \in DOMAIN cur[c].rec.calls[s] |->
                                     [cur[c].rec.calls[s][i] EXCEPT
                                        !.status = last'.calls[s][i].status]]]
              /\ ~last'.stored
      /\ (IF last'.kind = "send" THEN last'.stored ELSE FALSE)
         => LET d == last'.headers["destination"]
            IN /\ Unpending(d) = {}
               /\ last'.calls = NoCalls
               /\ Len(Held(messages', d)) = Len(Held(messages, d)) + 1
               /\ Fids(Held(messages', d)) = Fids(Held(messages, d)) \cup {last'.fid}
               /\ \A e \in (DOMAIN messages \cup DOMAIN messages') \ {d} :
                    Held(messages', e) = Held(messages, e)
      /\ (IF last'.kind = "send" THEN Falsy(last'.given, "destination") ELSE FALSE)
         => /\ last'.outcome = "raised"
            /\ last'.calls = NoCalls
            /\ ~last'.stored
            /\ UNCHANGED <<connected, q_subs, t_subs, pending, messages, pc, cur>>
      /\ (IF last'.kind = "send"
          THEN Truthy(last'.given, "destination") /\ last'.outcome # "in flight"
          ELSE FALSE)
         => IF last'.stored THEN last'.calls = NoCalls
            ELSE Cardinality(DOMAIN last'.calls) = 1 /\ AtMostOneCall(last')
    ]_vars

\* a queue send has delivered its frame to a subscription while an earlier
\* frame, sent when nobody was subscribed, is in the store
C25_Witness ==
  /\ LastQueueSend
  /\ LastSend.outcome = "returned"
  /\ ~LastSend.stored
  /\ Cardinality(DOMAIN LastSend.calls) = 1
  /\ Held(messages, QueueA) # <<>>

\* C26: a topic send that has ended was not disturbed by the subscribes and
\* unsubscribes that ran while it was suspended in send_frame: it returned
\* instead of raising, and every subscription that was on the destination when
\* it started and is still there was called exactly once.
C26_Undisturbed ==
  (LastTopicSend /\ Truthy(LastSend.given, "destination")
     /\ LastSend.outcome # "in flight")
  => /\ LastSend.outcome = "returned"
     /\ \A s \in LastSend.start \cap subscribers(t_subs, LastSend.headers["destination"]) :
          /\ s \in DOMAIN LastSend.calls
          /\ Len(LastSend.calls[s]) = 1

\* the connection whose disconnect by the topic (queue) manager has just
\* completed; 0 when the last step was something else
JustLeftTopics == IF last.kind = "topic disconnect" THEN last.conn ELSE 0
JustLeftQueues == IF last.kind = "queue disconnect" THEN last.conn ELSE 0

\* C27: the step that follows a completed disconnect(c) of a manager starts
\* no send_frame of that manager on connection c, be it the first call of a
\* new send or the next call of a send that was suspended when the
\* disconnect ran.
C27_NoDeliveryAfterDisconnect ==
  [][ /\ \A c \in Senders :
           (pc'[c] = "tsend" /\ (pc[c] = "idle" \/ cur'[c].sel # cur[c].sel))
           => cur'[c].sel.connection # JustLeftTopics
      /\ \A c \in Senders :
           (pc'[c] = "qsend" /\ pc[c] = "idle")
           => cur'[c].sel.connection # JustLeftQueues
    ]_vars

\* the registry call a step has just made
RegistryOp(rec, op) == IF rec.kind = "registry" THEN rec.op = op ELSE FALSE

AllDests(reg1, reg2) == DOMAIN reg1 \cup DOMAIN reg2

\* C28: disconnect(c) of the registry removes every subscription of
\* connection c on every destination and leaves the subscriptions of the other
\* connections as they were; unsubscribe(c, d, id) removes the entry (c, id) of
\* destination d, keeps the other entries of d and changes no other destination.
C28_FrameCondition ==
  [][ /\ RegistryOp(last', "disconnect")
         => \A d \in AllDests(t_subs, t_subs') :
              /\ \A s \in subscribers(t_subs', d) : s.connection # last'.conn
              /\ \A s \in subscribers(t_subs, d) :
                   s.connection # last'.conn => s \in subscribers(t_subs', d)
              /\ subscribers(t_subs', d) \subseteq subscribers(t_subs, d)
      /\ RegistryOp(last', "unsubscribe")
         => /\ AsyncSubscription(last'.conn, last'.id)
                 \notin subscribers(t_subs', last'.dest)
            /\ \A s \in Subscriptions :
                 s # AsyncSubscription(last'.conn, last'.id)
                 => (s \in subscribers(t_subs', last'.dest)
                       <=> s \in subscribers(t_subs, last'.dest))
            /\ \A e \in AllDests(t_subs, t_subs') \ {last'.dest} :
                 subscribers(t_subs', e) = subscribers(t_subs, e)
    ]_vars

\* connection 1 has been disconnected while subscribed to a destination
\* together with connection 2, which keeps its subscriptions on both destinations
C28_Witness ==
  /\ RegistryOp(last, "disconnect")
  /\ last.conn = 1
  /\ last.had = 3
  /\ subscribers(t_subs, TopicX) = {AsyncSubscription(2, "s1")}
  /\ subscribers(t_subs, TopicY) = {AsyncSubscription(2, "s1")}

\* an entry has been unsubscribed from a destination that keeps another entry
\* of the same connection, while the other destination keeps its subscriptions
C28_UnsubscribeWitness ==
  /\ RegistryOp(last, "unsubscribe")
  /\ last.conn = 1 /\ last.dest = TopicX /\ last.id = "s1"
  /\ last.had = 2
  /\ subscribers(t_subs, TopicX) = {AsyncSubscription(1, "s2")}
  /\ AsyncSubscription(1, "s1") \in subscribers(t_subs, TopicY)

\* the entry a registry call names
Entry(rec) == AsyncSubscription(rec.conn, rec.id)

SameCall(r1, r2) ==
  IF r1.kind = "registry" /\ r2.kind = "registry"
  THEN r1.op = r2.op /\ r1.conn = r2.conn /\ r1.dest = r2.dest /\ r1.id = r2.id
  ELSE FALSE

\* C29: subscribe(c, d, id) adds the entry (c, id) to destination d and keeps
\* the entries d had, so two ids of one connection are two subscriptions; when
\* the entry was already there the registry is as before and subscriber_count
\* answers what it answered, also on an immediate repeat of the call.
\* unsubscribe of an entry that is not there, or on a destination without
\* subscriptions, returns and leaves the registry as it was, and a repeated
\* unsubscribe changes nothing more.
C29_Idempotence ==
  [][ /\ RegistryOp(last', "subscribe")
         => /\ subscribers(t_subs', last'.dest)
                 = subscribers(t_subs, last'.dest) \cup {Entry(last')}
            /\ last'.count = Cardinality(subscribers(t_subs, last'.dest)
                                           \cup {Entry(last')})
            /\ Entry(last') \in subscribers(t_subs, last'.dest)
               => t_subs' = t_subs /\ last'.count = last'.had
            /\ SameCall(last, last') => t_subs' = t_subs /\ last'.count = last.count
      /\ RegistryOp(last', "unsubscribe")
         => /\ last'.outcome = "returned"
            /\ Entry(last') \notin subscribers(t_subs, last'.dest) => t_subs' = t_subs
            /\ SameCall(last, last') => t_subs' = t_subs
    ]_vars

\* connection 1 has subscribed to a destination again with an id it already
\* holds there, next to a second id: the destination counts two subscriptions
C29_Witness ==
  /\ RegistryOp(last, "subscribe")
  /\ last.conn = 1 /\ last.dest = TopicX
  /\ last.had = 2 /\ last.count = 2
  /\ subscribers(t_subs, TopicX) = {AsyncSubscription(1, "s1"), AsyncSubscription(1, "s2")}

\* an unsubscribe has been called on a destination that has no subscriptions
C29_AbsentWitness ==
  /\ RegistryOp(last, "unsubscribe")
  /\ last.dest = TopicY
  /\ last.had = 0
  /\ TopicY \notin DOMAIN t_subs
  /\ TopicX \in DOMAIN t_subs

\* the subscriptions whose send_frame of a send came back without raising
Delivered(rec) ==
  { s \in DOMAIN rec.calls : \E i \in DOMAIN rec.calls[s] : rec.calls[s][i].status = "ok" }

\* C30: when a queue send of a frame with a destination has finished, by
\* returning or by raising, the frame has been delivered to exactly one
\* subscriber or is in the store under its destination.
C30_NoLoss ==
  (LastQueueSend /\ Truthy(LastSend.given, "destination")
     /\ LastSend.outcome # "in flight")
  => \/ Cardinality(Delivered(LastSend)) = 1 /\ AtMostOneCall(LastSend)
     \/ LastSend.fid \in Fids(Held(messages, LastSend.headers["destination"]))

\* the store call that was just made only asked: size, has_frames, or a
\* dequeue that returned None
StoreQuery ==
  IF last.kind = "store"
  THEN \/ last.op \in {"size", "has_frames"}
       \/ last.op = "dequeue" /\ last.result = <<>>
  ELSE FALSE

\* C31: size(d), has_frames(d) and a dequeue(d) that returns None leave the
\* in-memory store as it was, and destinations() answers after the call what
\* it answered before.
C31_QueriesReadOnly ==
  StoreQuery => /\ messages = last.before
                /\ destinations(messages) = destinations(last.before)

====
